---------------------------- MODULE Spec2Model ----------------------------
(***************************************************************************)
(* A model of the pixeldrift backend's request handlers                    *)
(* (src/routes/pdf_routes.py, src/routes/image_routes.py).                 *)
(*                                                                         *)
(* Each handler is a sequential procedure; it is modelled as a small       *)
(* program counter machine whose actions are the handler's phases.  One    *)
(* request is in flight per behaviour: the handlers share no state.        *)
(***************************************************************************)
EXTENDS Integers, Sequences, FiniteSets, TLC

VARIABLES
    \* ---- split-pdf-advanced (pdf_routes.py:35-84)
    pages,          \* the `pages` query string, a sequence of characters
    pdfValid,       \* whether PdfReader accepts the upload
    pageCount,      \* len(reader.pages)
    splitPc,        \* position in the handler
    page_indices,   \* the list built by the parser
    writerPages,    \* pages added to the PdfWriter, in order
    splitResp,      \* the response of the request
    \* ---- convert-image / resize-image (image_routes.py:184-244, 305-398)
    route,          \* "convert" | "resize" | "none"
    nfiles,         \* len(files)
    out_format,     \* the out_format form field, lower-cased
    rename_to,      \* the rename_to form field (convert-image), <<>> when absent
    resize_mode,    \* the resize_mode form field (resize-image)
    files,          \* the uploads read so far, in input order
    zipNames,       \* member names written to the archive so far, in order
    results,        \* the `results` list of resize-image (names)
    batchPc,        \* position in the handler
    batchResp,      \* the response of the request
    \* ---- the sizing functions (image_routes.py:25-47, 282-300; pdf_routes.py:178-195)
    sizeCall,       \* the function applied and its arguments
    sizeRes,        \* the pair it returned, <<>> before the call
    \* ---- compress-pdf-advanced (pdf_routes.py:229-306)
    cpPageCount,    \* src_doc.page_count
    cpMaxPages,     \* the max_pages query parameter, 0 for None
    cpRemoveMetadata, \* the remove_metadata query parameter
    cpPc,           \* position in the handler
    srcDoc,         \* the source document handle: "none" | "open" | "closed"
    newDoc,         \* the destination document handle
    cpInserted,     \* pages inserted into new_doc so far
    cpRaised,       \* an exception is pending inside the try block
    cpResp,         \* the response of the request
    \* ---- compress-image-advanced (image_routes.py:52-140)
    ciFormat,       \* the format query parameter, lower-cased
    ciUpload,       \* the uploaded bytes
    ciKeepMetadata, \* the keep_metadata query parameter
    ciResize,       \* resize_percent, max_width, max_height
    ciImage,        \* the `image` variable
    ciSteps,        \* the processing steps carried out so far, in order
    ciPc,           \* position in the handler
    ciResp,         \* the response of the request
    \* ---- image-to-pdf-advanced (pdf_routes.py:142-226)
    itpFiles,       \* the uploaded images, by size <<width, height>>
    itpPageSize,    \* the page_size query parameter
    itpOrientation, \* the orientation query parameter
    itpMargin,      \* the margin query parameter
    itpFitMode,     \* the fit_mode query parameter
    itpPc,          \* position in the handler
    itpSize,        \* (new_w, new_h) of the image the loop is at
    itpCanvases,    \* the `images` list of page canvases
    itpResp,        \* the response of the request
    \* ---- the colour mode at the encoder (image_routes.py:93-123, 176-179, 332-366)
    encCall,        \* the route, the source image's mode and the parameters
    encRes          \* the encoder call or the exception, <<>> before

batchVars == <<route, nfiles, out_format, rename_to, resize_mode, files, zipNames,
               results, batchPc, batchResp>>

splitVars == <<pages, pdfValid, pageCount, splitPc, page_indices, writerPages, splitResp>>

sizeVars == <<sizeCall, sizeRes>>

compressPdfVars == <<cpPageCount, cpMaxPages, cpRemoveMetadata, cpPc, srcDoc, newDoc,
                     cpInserted, cpRaised, cpResp>>

compressImageVars == <<ciFormat, ciUpload, ciKeepMetadata, ciResize, ciImage, ciSteps,
                       ciPc, ciResp>>

imageToPdfVars == <<itpFiles, itpPageSize, itpOrientation, itpMargin, itpFitMode, itpPc,
                    itpSize, itpCanvases, itpResp>>

encodeVars == <<encCall, encRes>>

vars == <<splitVars, batchVars, sizeVars, compressPdfVars, compressImageVars, imageToPdfVars,
          encodeVars>>

\* what a handler leaves alone: the state of the other handlers
nonSplitVars == <<batchVars, sizeVars, compressPdfVars, compressImageVars, imageToPdfVars, encodeVars>>
nonBatchVars == <<splitVars, sizeVars, compressPdfVars, compressImageVars, imageToPdfVars, encodeVars>>
nonSizeVars == <<splitVars, batchVars, compressPdfVars, compressImageVars, imageToPdfVars, encodeVars>>
nonCompressPdfVars == <<splitVars, batchVars, sizeVars, compressImageVars, imageToPdfVars, encodeVars>>
nonCompressImageVars == <<splitVars, batchVars, sizeVars, compressPdfVars, imageToPdfVars, encodeVars>>
nonImageToPdfVars == <<splitVars, batchVars, sizeVars, compressPdfVars, compressImageVars,
                       encodeVars>>
nonEncodeVars == <<splitVars, batchVars, sizeVars, compressPdfVars, compressImageVars,
                   imageToPdfVars>>

(***************************************************************************)
(* Bounds of the model.                                                    *)
(***************************************************************************)
MaxExprLen == 5
MaxFiles == 3
MaxDim == 3
MaxPdfPages == 3
MaxImages == 2

(***************************************************************************)
(* A handler that is not the one serving the request stays idle.           *)
(***************************************************************************)
NoResp == [kind |-> "none"]

SplitIdle ==
    /\ pages = <<>> /\ pdfValid = FALSE /\ pageCount = 0 /\ splitPc = "idle"
    /\ page_indices = <<>> /\ writerPages = <<>> /\ splitResp = NoResp

BatchIdle ==
    /\ route = "none" /\ nfiles = 0 /\ out_format = "" /\ rename_to = <<>>
    /\ resize_mode = "" /\ files = <<>> /\ zipNames = <<>> /\ results = <<>>
    /\ batchPc = "idle" /\ batchResp = NoResp

SizeIdle == sizeCall = [fn |-> "none"] /\ sizeRes = <<>>

CompressPdfIdle ==
    /\ cpPageCount = 0 /\ cpMaxPages = 0 /\ cpRemoveMetadata = TRUE /\ cpPc = "idle"
    /\ srcDoc = "none" /\ newDoc = "none" /\ cpInserted = 0 /\ cpRaised = FALSE
    /\ cpResp = NoResp

CompressImageIdle ==
    /\ ciFormat = "" /\ ciUpload = [kind |-> "none"] /\ ciKeepMetadata = FALSE
    /\ ciResize = [percent |-> 100, max_width |-> 0, max_height |-> 0]
    /\ ciImage = [mode |-> "", size |-> <<0, 0>>, tag |-> 1, upright |-> TRUE, info |-> FALSE]
    /\ ciSteps = <<>> /\ ciPc = "idle" /\ ciResp = NoResp

ImageToPdfIdle ==
    /\ itpFiles = <<>> /\ itpPageSize = "" /\ itpOrientation = "" /\ itpMargin = 0
    /\ itpFitMode = "" /\ itpPc = "idle" /\ itpSize = <<>> /\ itpCanvases = <<>>
    /\ itpResp = NoResp

EncodeIdle == encCall = [route |-> "none"] /\ encRes = <<>>

(***************************************************************************)
(* Generic sequence helpers.                                               *)
(***************************************************************************)
RECURSIVE SeqsUpTo(_, _)
SeqsUpTo(S, n) ==
    IF n = 0 THEN {<<>>}
    ELSE LET shorter == SeqsUpTo(S, n - 1)
         IN  shorter \cup {Append(s, c) : s \in {t \in shorter : Len(t) = n - 1}, c \in S}

Range(s) == {s[i] : i \in DOMAIN s}

(***************************************************************************)
(* split-pdf-advanced: the page expression parser.                         *)
(***************************************************************************)
Digits == {"0", "1", "2", "3", "4", "5", "6", "7", "8", "9"}

DigitVal(c) ==
    CASE c = "0" -> 0 [] c = "1" -> 1 [] c = "2" -> 2 [] c = "3" -> 3
      [] c = "4" -> 4 [] c = "5" -> 5 [] c = "6" -> 6 [] c = "7" -> 7
      [] c = "8" -> 8 [] c = "9" -> 9

\* pages.replace(" ", "")
RemoveSpaces(s) == SelectSeq(s, LAMBDA c : c # " ")

\* str.split(sep): always at least one part; parts may be empty
RECURSIVE StrSplit(_, _)
StrSplit(s, sep) ==
    IF sep \notin Range(s) THEN <<s>>
    ELSE LET i == CHOOSE k \in DOMAIN s : s[k] = sep /\ \A j \in 1..(k - 1) : s[j] # sep
         IN  <<SubSeq(s, 1, i - 1)>> \o StrSplit(SubSeq(s, i + 1, Len(s)), sep)

\* whether int(tok) succeeds, for tokens over the model's alphabet
IntOk(tok) == Len(tok) > 0 /\ \A i \in DOMAIN tok : tok[i] \in Digits

\* int(tok) for a token of decimal digits
RECURSIVE ParseInt(_)
ParseInt(tok) ==
    IF Len(tok) = 0 THEN 0
    ELSE 10 * ParseInt(SubSeq(tok, 1, Len(tok) - 1)) + DigitVal(tok[Len(tok)])

\* list(range(a, b))
PyRange(a, b) == [i \in 1..(IF b > a THEN b - a ELSE 0) |-> a + i - 1]

\* whether processing one token r raises ValueError
TokenRaises(r) ==
    IF "-" \in Range(r)
    THEN LET parts == StrSplit(r, "-")
         IN  Len(parts) # 2 \/ \E i \in DOMAIN parts : ~IntOk(parts[i])
    ELSE ~IntOk(r)

\* the indices one token contributes to page_indices
RangeIndicesExclusive(start, end) == PyRange(start - 1, end - 1)

RangeIndices(start, end) == PyRange(start - 1, end)

TokenIndices(r) ==
    IF "-" \in Range(r)
    THEN LET parts == StrSplit(r, "-")
         IN  RangeIndices(ParseInt(parts[1]), ParseInt(parts[2]))
    ELSE <<ParseInt(r) - 1>>

RECURSIVE ConcatTokens(_)
ConcatTokens(toks) ==
    IF Len(toks) = 0 THEN <<>>
    ELSE TokenIndices(Head(toks)) \o ConcatTokens(Tail(toks))

AllExpr == <<"a", "l", "l">>

Tokens(expr) == StrSplit(RemoveSpaces(expr), ",")

\* the parse of lines 49-60: "raise" or the index list
ParseRaises(expr) ==
    expr # AllExpr /\ \E i \in DOMAIN Tokens(expr) : TokenRaises(Tokens(expr)[i])

ParsePages(expr, n) ==
    IF expr = AllExpr THEN PyRange(0, n) ELSE ConcatTokens(Tokens(expr))

\* the validation loop of lines 63-66: position of the first bad index, 0 if none
IndexBadOffByOne(idx, max_pages) == idx < 0 \/ idx > max_pages

IndexBad(idx, max_pages) == idx < 0 \/ idx >= max_pages

FirstBad(idxs, max_pages) ==
    IF \E i \in DOMAIN idxs : IndexBad(idxs[i], max_pages)
    THEN CHOOSE i \in DOMAIN idxs :
            /\ IndexBad(idxs[i], max_pages)
            /\ \A j \in 1..(i - 1) : ~IndexBad(idxs[j], max_pages)
    ELSE 0

ExprAlphabet == {"0", "1", "3", "-", ",", " "}
PageCounts == {2, 3, 10}
ExamplePages == {<<"2", "-", "5", ",", "8">>, AllExpr}
Exprs == SeqsUpTo(ExprAlphabet, MaxExprLen) \cup ExamplePages

InitSplit ==
    /\ pages \in Exprs
    /\ \/ pdfValid = TRUE /\ pageCount \in PageCounts
       \/ pdfValid = FALSE /\ pageCount = 0 /\ pages \in ExamplePages
    /\ splitPc = "open"
    /\ page_indices = <<>>
    /\ writerPages = <<>>
    /\ splitResp = NoResp
    /\ BatchIdle /\ SizeIdle /\ CompressPdfIdle /\ CompressImageIdle /\ ImageToPdfIdle /\ EncodeIdle

\* lines 40-46: PdfReader(pdf_stream)
SplitOpen ==
    /\ splitPc = "open"
    /\ IF pdfValid
       THEN splitPc' = "parse" /\ UNCHANGED splitResp
       ELSE splitPc' = "done" /\ splitResp' = [kind |-> "error", msg |-> "Invalid PDF file"]
    /\ UNCHANGED <<pages, pdfValid, pageCount, page_indices, writerPages>>
    /\ UNCHANGED nonSplitVars

\* lines 49-60: build page_indices; an int() or unpacking failure is unhandled
SplitParse ==
    /\ splitPc = "parse"
    /\ IF ParseRaises(pages)
       THEN /\ splitPc' = "done"
            /\ splitResp' = [kind |-> "exception"]
            /\ UNCHANGED page_indices
       ELSE /\ splitPc' = "validate"
            /\ page_indices' = ParsePages(pages, pageCount)
            /\ UNCHANGED splitResp
    /\ UNCHANGED <<pages, pdfValid, pageCount, writerPages>>
    /\ UNCHANGED nonSplitVars

\* lines 62-66
SplitValidate ==
    /\ splitPc = "validate"
    /\ LET b == FirstBad(page_indices, pageCount)
       IN  IF b # 0
           THEN /\ splitPc' = "done"
                /\ splitResp' = [kind |-> "error", msg |-> "out of range",
                                 page |-> page_indices[b] + 1]
           ELSE /\ splitPc' = "build"
                /\ UNCHANGED splitResp
    /\ UNCHANGED <<pages, pdfValid, pageCount, page_indices, writerPages>>
    /\ UNCHANGED nonSplitVars

\* lines 68-84: writer.add_page for every index, then the response
SplitBuild ==
    /\ splitPc = "build"
    /\ writerPages' = page_indices
    /\ splitPc' = "done"
    /\ splitResp' = [kind |-> "document", doc |-> page_indices]
    /\ UNCHANGED <<pages, pdfValid, pageCount, page_indices>>
    /\ UNCHANGED nonSplitVars

NextSplit == SplitOpen \/ SplitParse \/ SplitValidate \/ SplitBuild

SpecSplit == InitSplit /\ [][NextSplit]_vars


(***************************************************************************)
(* The page-range grammar, read left to right one character at a time      *)
(* (TOKEN := NUMBER | NUMBER "-" NUMBER, comma separated, blanks ignored). *)
(* It is the yardstick the parser's result is compared against.            *)
(***************************************************************************)
ScanStart == [toks |-> <<>>, num |-> -1, lo |-> -1, ok |-> TRUE]

ScanEmit(st) ==
    IF st.num = -1 THEN [st EXCEPT !.ok = FALSE]
    ELSE [toks |-> Append(st.toks, IF st.lo = -1
                                   THEN [range |-> FALSE, lo |-> st.num, hi |-> st.num]
                                   ELSE [range |-> TRUE, lo |-> st.lo, hi |-> st.num]),
          num |-> -1, lo |-> -1, ok |-> st.ok]

ScanChar(st, c) ==
    IF c = " " THEN st
    ELSE IF c \in Digits
         THEN [st EXCEPT !.num = IF st.num = -1 THEN DigitVal(c) ELSE 10 * st.num + DigitVal(c)]
    ELSE IF c = "-"
         THEN IF st.num # -1 /\ st.lo = -1
              THEN [st EXCEPT !.lo = st.num, !.num = -1]
              ELSE [st EXCEPT !.ok = FALSE]
    ELSE IF c = "," THEN ScanEmit(st)
    ELSE [st EXCEPT !.ok = FALSE]

RECURSIVE ScanFrom(_, _, _)
ScanFrom(st, expr, i) ==
    IF i > Len(expr) THEN ScanEmit(st) ELSE ScanFrom(ScanChar(st, expr[i]), expr, i + 1)

Scan(expr) == ScanFrom(ScanStart, expr, 1)

\* the expression is a sentence of the grammar
WellFormed(expr) == Scan(expr).ok
GrammarTokens(expr) == Scan(expr).toks

RECURSIVE Resolve(_)
Resolve(toks) ==
    IF Len(toks) = 0 THEN <<>>
    ELSE [i \in 1..(IF Head(toks).hi >= Head(toks).lo
                    THEN Head(toks).hi - Head(toks).lo + 1 ELSE 0) |-> Head(toks).lo - 1 + i - 1]
         \o Resolve(Tail(toks))

InPages(n) == 1 <= n /\ n <= pageCount

AllInRange(toks) == \A i \in DOMAIN toks : InPages(toks[i].lo) /\ InPages(toks[i].hi)
NoReversed(toks) == \A i \in DOMAIN toks : toks[i].lo <= toks[i].hi
SomeReversed(toks) == \E i \in DOMAIN toks : toks[i].lo > toks[i].hi
SomeOutOfRange(toks) ==
    \E i \in DOMAIN toks :
        toks[i].lo <= toks[i].hi /\ (~InPages(toks[i].lo) \/ ~InPages(toks[i].hi))

SplitDone == splitPc = "done" /\ pdfValid

\* C2: an expression of the grammar whose numbers all lie in 1..pageCount and
\* whose ranges all have start <= end resolves to the concatenation, in token
\* order, of n-1 for a number and start-1..end-1 for a range, repeats kept,
\* and the output document holds exactly those pages in that order.
C2_ResolvedInTokenOrder ==
    (SplitDone /\ WellFormed(pages) /\ AllInRange(GrammarTokens(pages))
        /\ NoReversed(GrammarTokens(pages)))
    => /\ page_indices = Resolve(GrammarTokens(pages))
       /\ writerPages = Resolve(GrammarTokens(pages))
       /\ splitResp = [kind |-> "document", doc |-> Resolve(GrammarTokens(pages))]

\* "2-5,8" on a 10-page document has produced the document of pages [1,2,3,4,7]
C2_Witness ==
    /\ splitPc = "done"
    /\ pages = <<"2", "-", "5", ",", "8">>
    /\ pageCount = 10
    /\ splitResp = [kind |-> "document", doc |-> <<1, 2, 3, 4, 7>>]

\* C3: an expression of the grammar that holds a range with start > end ends
\* in a range error and produces no output document.
C3_ReversedRangeFails ==
    (SplitDone /\ WellFormed(pages) /\ SomeReversed(GrammarTokens(pages)))
    => splitResp.kind = "error" /\ writerPages = <<>>

\* C4: every page index of the output document lies in [0, pageCount); and an
\* expression of the grammar holding a number outside 1..pageCount (a single
\* number, or an endpoint of a range with start <= end) ends in an error that
\* names a resolved page outside 1..pageCount, with no output document built.
C4_IndicesValidated ==
    /\ \A i \in DOMAIN writerPages : 0 <= writerPages[i] /\ writerPages[i] < pageCount
    /\ splitResp.kind = "document" =>
            \A i \in DOMAIN splitResp.doc : 0 <= splitResp.doc[i] /\ splitResp.doc[i] < pageCount
    /\ (SplitDone /\ WellFormed(pages) /\ SomeOutOfRange(GrammarTokens(pages)))
       => /\ splitResp.kind = "error"
          /\ splitResp.msg = "out of range"
          /\ ~InPages(splitResp.page)
          /\ splitResp.page - 1 \in Range(Resolve(GrammarTokens(pages)))
          /\ writerPages = <<>>

\* "11" on a 10-page document has ended in "Page 11 out of range"
C4_Witness ==
    /\ splitPc = "done"
    /\ pages = <<"1", "1">>
    /\ pageCount = 10
    /\ splitResp = [kind |-> "error", msg |-> "out of range", page |-> 11]
    /\ writerPages = <<>>

(***************************************************************************)
(* convert-image and resize-image: the batch loops and the packaging.      *)
(***************************************************************************)
\* re.sub(r"[^a-zA-Z0-9_.-]", "_", name), over the model's characters
SafeChars == {"a", "b", "r", "p", "j", "e", "g", "n", "s", "i", "z", "d", "m",
              "_", ".", "-"} \cup Digits

sanitize_filename(name) == [i \in DOMAIN name |-> IF name[i] \in SafeChars THEN name[i] ELSE "_"]

\* name.rsplit(".", 1)[0]
RsplitBase(name) ==
    IF "." \notin Range(name) THEN name
    ELSE LET k == CHOOSE i \in DOMAIN name :
                    name[i] = "." /\ \A j \in (i + 1)..Len(name) : name[j] # "."
         IN  SubSeq(name, 1, k - 1)

DigitChar(d) ==
    CASE d = 0 -> "0" [] d = 1 -> "1" [] d = 2 -> "2" [] d = 3 -> "3" [] d = 4 -> "4"
      [] d = 5 -> "5" [] d = 6 -> "6" [] d = 7 -> "7" [] d = 8 -> "8" [] d = 9 -> "9"

\* str(n) for n >= 0
RECURSIVE IntToStr(_)
IntToStr(n) == IF n < 10 THEN <<DigitChar(n)>> ELSE Append(IntToStr(n \div 10), DigitChar(n % 10))

FormatChars(fmt) ==
    CASE fmt = "jpeg" -> <<"j", "p", "e", "g">>
      [] fmt = "jpg" -> <<"j", "p", "g">>
      [] fmt = "png" -> <<"p", "n", "g">>
      [] fmt = "bmp" -> <<"b", "m", "p">>
      [] fmt = "gif" -> <<"g", "i", "f">>

\* SUPPORTED_OUTPUTS (lines 148-155) and FORMAT_MAP (lines 259-263), over the
\* formats the model draws
ConvertSupported == {"jpeg", "png", "bmp"}
ResizeSupported == {"jpeg", "png"}
ResizeExt(fmt) == IF fmt = "jpeg" THEN "jpg" ELSE fmt

\* convert-image, line 206/229: rename_to or file.filename.rsplit(".", 1)[0]
ConvertBase(filename) == IF rename_to # <<>> THEN rename_to ELSE RsplitBase(filename)

\* line 207: f"{sanitize_filename(base)}.{out_format}"
ConvertSingleName(filename) ==
    sanitize_filename(ConvertBase(filename)) \o <<".">> \o FormatChars(out_format)

\* line 230: f"{sanitize_filename(base)}_{idx}.{out_format}"
ConvertMemberName(filename, idx) ==
    sanitize_filename(ConvertBase(filename)) \o <<"_">> \o IntToStr(idx)
        \o <<".">> \o FormatChars(out_format)

\* lines 369-370: f"{sanitize_filename(base)}-resized.{ext}"
ResizeName(filename) ==
    sanitize_filename(RsplitBase(filename))
        \o <<"-", "r", "e", "s", "i", "z", "e", "d", ".">> \o FormatChars(ResizeExt(out_format))

\* What goes wrong with one upload: nothing, more than MAX_IMAGE_SIZE bytes,
\* bytes Pillow cannot decode, or an image the encoder rejects.
Faults == {"none", "oversize", "undecodable", "encode"}

\* load_image / open_image (lines 163-173, 271-279) followed by img.save:
\* whether the item raises, and the status of the error response
ItemRaisesLoadOnly(fault) == fault \in {"oversize", "undecodable"}

ItemRaises(fault) == fault # "none"

ItemStatus(fault) ==
    CASE fault = "oversize" -> 413
      [] fault = "undecodable" -> 400
      [] fault = "encode" -> 500

FileNames == {<<"a", ".", "p">>, <<"a", ".", "j">>, <<"a", " ", "b", ".", "p">>,
              <<"a", "_", "b", ".", "p">>, <<"a", "_", "1", ".", "p">>, <<"b">>}
OutFormats == {"jpeg", "png", "bmp", "gif"}
RenameTos == {<<>>, <<"r">>}
ResizeModes == {"fit", "pad", "stretch", "crop"}

Upload(name, fault) == [filename |-> name, fault |-> fault]

InitBatch ==
    /\ route \in {"convert", "resize"}
    /\ nfiles \in 1..MaxFiles
    /\ out_format \in OutFormats
    /\ rename_to \in (IF route = "convert" THEN RenameTos ELSE {<<>>})
    /\ resize_mode \in (IF route = "resize" THEN ResizeModes ELSE {""})
    /\ files = <<>> /\ zipNames = <<>> /\ results = <<>>
    /\ batchPc = "check"
    /\ batchResp = NoResp
    /\ SplitIdle /\ SizeIdle /\ CompressPdfIdle /\ CompressImageIdle /\ ImageToPdfIdle /\ EncodeIdle

BatchFixed == <<route, nfiles, out_format, rename_to, resize_mode>>

\* convert-image lines 190-195
ConvertCheck ==
    /\ route = "convert" /\ batchPc = "check"
    /\ IF out_format \notin ConvertSupported
       THEN batchPc' = "done" /\ batchResp' = [kind |-> "error", status |-> 400]
       ELSE batchPc' = (IF nfiles = 1 THEN "single" ELSE "loop") /\ UNCHANGED batchResp
    /\ UNCHANGED <<BatchFixed, files, zipNames, results>>
    /\ UNCHANGED nonBatchVars

\* convert-image lines 198-217: the single file
ConvertSingle ==
    /\ route = "convert" /\ batchPc = "single"
    /\ \E name \in FileNames, fault \in Faults :
        /\ files' = Append(files, Upload(name, fault))
        /\ batchResp' = IF ItemRaises(fault)
                        THEN [kind |-> "error", status |-> ItemStatus(fault)]
                        ELSE [kind |-> "single", name |-> ConvertSingleName(name)]
    /\ batchPc' = "done"
    /\ UNCHANGED <<BatchFixed, zipNames, results>>
    /\ UNCHANGED nonBatchVars

\* convert-image lines 223-232: one iteration of the loop inside the ZipFile
ConvertItem ==
    /\ route = "convert" /\ batchPc = "loop" /\ Len(files) < nfiles
    /\ \E name \in FileNames, fault \in Faults :
        /\ files' = Append(files, Upload(name, fault))
        /\ IF ItemRaises(fault)
           THEN /\ batchPc' = "done"
                /\ batchResp' = [kind |-> "error", status |-> ItemStatus(fault)]
                /\ UNCHANGED zipNames
           ELSE /\ zipNames' = Append(zipNames, ConvertMemberName(name, Len(files) + 1))
                /\ UNCHANGED <<batchPc, batchResp>>
    /\ UNCHANGED <<BatchFixed, results>>
    /\ UNCHANGED nonBatchVars

\* convert-image lines 234-244: the archive is returned
ConvertReturn ==
    /\ route = "convert" /\ batchPc = "loop" /\ Len(files) = nfiles
    /\ batchPc' = "done"
    /\ batchResp' = [kind |-> "archive", members |-> zipNames]
    /\ UNCHANGED <<BatchFixed, files, zipNames, results>>
    /\ UNCHANGED nonBatchVars

\* resize-image lines 319-330 (`files` is never empty here: File(...) is required)
ResizeCheck ==
    /\ route = "resize" /\ batchPc = "check"
    /\ IF resize_mode \notin {"fit", "stretch", "pad"} \/ out_format \notin ResizeSupported
       THEN batchPc' = "done" /\ batchResp' = [kind |-> "error", status |-> 400]
       ELSE batchPc' = "loop" /\ UNCHANGED batchResp
    /\ UNCHANGED <<BatchFixed, files, zipNames, results>>
    /\ UNCHANGED nonBatchVars

\* resize-image lines 332-370: one iteration of the loop
ResizeItem ==
    /\ route = "resize" /\ batchPc = "loop" /\ Len(files) < nfiles
    /\ \E name \in FileNames, fault \in Faults :
        /\ files' = Append(files, Upload(name, fault))
        /\ IF ItemRaises(fault)
           THEN /\ batchPc' = "done"
                /\ batchResp' = [kind |-> "error", status |-> ItemStatus(fault)]
                /\ UNCHANGED results
           ELSE /\ results' = Append(results, ResizeName(name))
                /\ UNCHANGED <<batchPc, batchResp>>
    /\ UNCHANGED <<BatchFixed, zipNames>>
    /\ UNCHANGED nonBatchVars

\* resize-image lines 372-398: one result is returned as it is, several are
\* written to the archive under their names
ResizePackage ==
    /\ route = "resize" /\ batchPc = "loop" /\ Len(files) = nfiles
    /\ batchPc' = "done"
    /\ IF Len(results) = 1
       THEN /\ batchResp' = [kind |-> "single", name |-> results[1]]
            /\ UNCHANGED zipNames
       ELSE /\ zipNames' = results
            /\ batchResp' = [kind |-> "archive", members |-> results]
    /\ UNCHANGED <<BatchFixed, files, results>>
    /\ UNCHANGED nonBatchVars

NextBatch ==
    \/ ConvertCheck \/ ConvertSingle \/ ConvertItem \/ ConvertReturn
    \/ ResizeCheck \/ ResizeItem \/ ResizePackage

SpecBatch == InitBatch /\ [][NextBatch]_vars

Delivered == batchResp.kind \in {"archive", "single"}
SomeItemFailed == \E i \in DOMAIN files : files[i].fault # "none"

\* C1: in a multi-file request to convert-image or resize-image, a failure of
\* any item, at any position, ends the request in an error, and no archive or
\* single artifact is returned; an archive is returned only after every item
\* has been transformed.
C1_BatchAtomic ==
    nfiles >= 2 =>
        /\ SomeItemFailed => ~Delivered
        /\ (SomeItemFailed /\ batchPc = "done") => batchResp.kind = "error"
        /\ batchResp.kind = "archive" =>
                /\ Len(files) = nfiles
                /\ \A i \in DOMAIN files : files[i].fault = "none"
                /\ Len(batchResp.members) = nfiles

\* a batch whose last item failed, after the earlier ones were processed, has
\* ended in an error
C1_Witness ==
    /\ nfiles >= 2 /\ batchPc = "done" /\ Len(files) = nfiles
    /\ files[nfiles].fault = "encode"
    /\ \A i \in 1..(nfiles - 1) : files[i].fault = "none"
    /\ Len(zipNames) + Len(results) = nfiles - 1
    /\ batchResp.kind = "error"

\* C5: the member names of every archive are pairwise distinct.
C5_MemberNamesDistinct ==
    batchResp.kind = "archive" =>
        \A i, j \in DOMAIN batchResp.members :
            i # j => batchResp.members[i] # batchResp.members[j]

(***************************************************************************)
(* Python float arithmetic, as the sizing code uses it: IEEE 754 binary64, *)
(* every operation rounded to nearest, ties to even.  A positive float is  *)
(* [m, e], standing for m * 2^e with 2^(MantBits-1) <= m < 2^MantBits.     *)
(* The significand m is a natural number held as four little-endian limbs  *)
(* to base LimbBase; the ints that meet a float are below 2^11, so every   *)
(* intermediate value fits.                                                *)
(***************************************************************************)
MantBits == 53
LimbBits == 16
LimbBase == 2 ^ LimbBits
HalfBase == LimbBase \div 2

BigZero == <<0, 0, 0, 0>>

BigFromInt(n) == <<n % LimbBase, n \div LimbBase, 0, 0>>

\* the value as an integer, for values below 2^31
BigToInt(x) == x[1] + LimbBase * x[2]

TopBit(limb) == IF limb >= HalfBase THEN 1 ELSE 0

\* 2 * x + bit
BigDouble(x, bit) ==
    <<(2 * x[1] + bit) % LimbBase,
      (2 * x[2] + TopBit(x[1])) % LimbBase,
      (2 * x[3] + TopBit(x[2])) % LimbBase,
      (2 * x[4] + TopBit(x[3])) % LimbBase>>

\* x \div 2
BigHalve(x) ==
    <<x[1] \div 2 + HalfBase * (x[2] % 2),
      x[2] \div 2 + HalfBase * (x[3] % 2),
      x[3] \div 2 + HalfBase * (x[4] % 2),
      x[4] \div 2>>

BigOdd(x) == x[1] % 2 = 1

\* x >= y
BigGe(x, y) ==
    IF x[4] # y[4] THEN x[4] > y[4]
    ELSE IF x[3] # y[3] THEN x[3] > y[3]
    ELSE IF x[2] # y[2] THEN x[2] > y[2]
    ELSE x[1] >= y[1]

\* x - y, for x >= y
BigSub(x, y) ==
    LET b2 == IF x[1] < y[1] THEN 1 ELSE 0
        b3 == IF x[2] - b2 < y[2] THEN 1 ELSE 0
        b4 == IF x[3] - b3 < y[3] THEN 1 ELSE 0
    IN  <<(x[1] - y[1] + LimbBase) % LimbBase,
          (x[2] - b2 - y[2] + LimbBase) % LimbBase,
          (x[3] - b3 - y[3] + LimbBase) % LimbBase,
          (x[4] - b4 - y[4] + LimbBase) % LimbBase>>

\* x * n, for a small n
BigMulSmall(x, n) ==
    LET p1 == x[1] * n
        p2 == x[2] * n + p1 \div LimbBase
        p3 == x[3] * n + p2 \div LimbBase
        p4 == x[4] * n + p3 \div LimbBase
    IN  <<p1 % LimbBase, p2 % LimbBase, p3 % LimbBase, p4 % LimbBase>>

\* x + 1
BigInc(x) ==
    LET c2 == IF x[1] = LimbBase - 1 THEN 1 ELSE 0
        c3 == IF c2 = 1 /\ x[2] = LimbBase - 1 THEN 1 ELSE 0
        c4 == IF c3 = 1 /\ x[3] = LimbBase - 1 THEN 1 ELSE 0
    IN  <<(x[1] + 1) % LimbBase, (x[2] + c2) % LimbBase,
          (x[3] + c3) % LimbBase, (x[4] + c4) % LimbBase>>

\* 2^k, for k < 4 * LimbBits
BigPow2(k) ==
    LET at == (k \div LimbBits) + 1
        v == 2 ^ (k % LimbBits)
    IN  <<IF at = 1 THEN v ELSE 0, IF at = 2 THEN v ELSE 0,
          IF at = 3 THEN v ELSE 0, IF at = 4 THEN v ELSE 0>>

\* x * LimbBase^k, for x below LimbBase
BigShiftLimbs(n, k) ==
    <<IF k = 0 THEN n ELSE 0, IF k = 1 THEN n ELSE 0,
      IF k = 2 THEN n ELSE 0, IF k = 3 THEN n ELSE 0>>

\* x \div 2^k
RECURSIVE BigShiftRight(_, _)
BigShiftRight(x, k) ==
    IF k = 0 THEN x
    ELSE IF k >= LimbBits THEN BigShiftRight(<<x[2], x[3], x[4], 0>>, k - LimbBits)
    ELSE BigShiftRight(BigHalve(x), k - 1)

\* int.bit_length()
RECURSIVE BitLen(_)
BitLen(n) == IF n = 0 THEN 0 ELSE 1 + BitLen(n \div 2)

\* Rounding of v * 2^e to MantBits bits: guard is the last bit shifted out,
\* sticky whether anything below the guard bit was nonzero.
RECURSIVE RoundShift(_, _, _, _)
RoundShift(v, e, guard, sticky) ==
    IF BigGe(v, BigPow2(MantBits))
    THEN RoundShift(BigHalve(v), e + 1, BigOdd(v), sticky \/ guard)
    ELSE IF guard /\ (sticky \/ BigOdd(v))
         THEN LET up == BigInc(v)
              IN  IF BigGe(up, BigPow2(MantBits))
                  THEN [m |-> BigHalve(up), e |-> e + 1]
                  ELSE [m |-> up, e |-> e]
    ELSE [m |-> v, e |-> e]

\* One step of binary long division by d: st is <<quotient, remainder, e>>,
\* e the exponent of the quotient's last place; a bit of the dividend is
\* brought down (drop = 0), or a zero past its end (drop = 1).
LongDivStep(bit, drop, d, st) ==
    LET r2 == BigDouble(st[2], bit)
    IN  IF BigGe(r2, d) THEN <<BigDouble(st[1], 1), BigSub(r2, d), st[3] - drop>>
        ELSE <<BigDouble(st[1], 0), r2, st[3] - drop>>

\* Binary long division of n by d, carried on until the quotient has
\* MantBits + 1 bits: the nbits bits of n are brought down first, most
\* significant first, then zeros.
RECURSIVE LongDiv(_, _, _, _)
LongDiv(n, nbits, d, st) ==
    IF BigGe(st[1], BigPow2(MantBits)) THEN st
    ELSE IF nbits > 0
         THEN LongDiv(n, nbits - 1, d, LongDivStep((n \div (2 ^ (nbits - 1))) % 2, 0, d, st))
    ELSE LongDiv(n, 0, d, LongDivStep(0, 1, d, st))

\* n / (d * 2^de), correctly rounded, for an int n and a natural d of dbits
\* bits.  While the remainder is below d the quotient stays 0, so the
\* division may start from n * LimbBase^skip as the remainder.
FloatDivBig(n, d, dbits, de) ==
    LET room == dbits - 1 - BitLen(n)
        skip == IF room > 0 THEN room \div LimbBits ELSE 0
        st == IF skip > 0
              THEN LongDiv(0, 0, d, <<BigZero, BigShiftLimbs(n, skip), 0 - skip * LimbBits>>)
              ELSE LongDiv(n, BitLen(n), d, <<BigZero, BigZero, 0>>)
    IN  RoundShift(st[1], st[3] - de, FALSE, st[2] # BigZero)

\* a / b, for ints a and b
FloatDivInts(a, b) == FloatDivBig(a, BigFromInt(b), BitLen(b), 0)

\* n / x, for an int n and a float x
FloatDivIntFloat(n, x) == FloatDivBig(n, x.m, MantBits, x.e)

\* n * x, for an int n and a float x
FloatMulInt(n, x) == RoundShift(BigMulSmall(x.m, n), x.e, FALSE, FALSE)

\* x > y
FloatGt(x, y) == x.e > y.e \/ (x.e = y.e /\ x.m # y.m /\ BigGe(x.m, y.m))

\* int(x): truncation toward zero
FloatToInt(x) ==
    IF x.e >= 0 THEN BigToInt(x.m) * 2 ^ x.e
    ELSE IF 0 - x.e >= MantBits THEN 0
    ELSE BigToInt(BigShiftRight(x.m, 0 - x.e))

(***************************************************************************)
(* The sizing functions.                                                   *)
(***************************************************************************)
\* int(n * x), for an int n >= 0 and a float x
IntTimesFloat(n, x) == IF n = 0 THEN 0 ELSE FloatToInt(FloatMulInt(n, x))

\* lines 34-35 of calculate_new_size: both sides times the scale, truncated
ScaleBy(w, h, scale) == <<IntTimesFloat(w, scale), IntTimesFloat(h, scale)>>

\* lines 37-40: the width limit; None is 0, as `if max_width` treats it
ClampWidth(size, max_w) ==
    IF max_w # 0 /\ size[1] > max_w
    THEN <<max_w, IntTimesFloat(size[2], FloatDivInts(max_w, size[1]))>>
    ELSE size

\* lines 42-45: the height limit
ClampHeight(size, max_h) ==
    IF max_h # 0 /\ size[2] > max_h
    THEN <<IntTimesFloat(size[1], FloatDivInts(max_h, size[2])), max_h>>
    ELSE size

\* calculate_new_size (image_routes.py:25-47)
calculate_new_size(w, h, percent, max_w, max_h) ==
    ClampHeight(ClampWidth(ScaleBy(w, h, FloatDivInts(percent, 100)), max_w), max_h)

\* compute_size (image_routes.py:282-300), with the comparison swapped
compute_size_swapped(ow, oh, tw, th, mode) ==
    IF mode = "stretch" THEN <<tw, th>>
    ELSE LET r == FloatDivInts(ow, oh)
         IN  IF FloatGt(r, FloatDivInts(tw, th))
             THEN <<FloatToInt(FloatMulInt(th, r)), th>>
             ELSE <<tw, FloatToInt(FloatDivIntFloat(tw, r))>>

\* compute_size (image_routes.py:282-300)
compute_size(ow, oh, tw, th, mode) ==
    IF mode = "stretch" THEN <<tw, th>>
    ELSE LET r == FloatDivInts(ow, oh)
         IN  IF FloatGt(FloatDivInts(tw, th), r)
             THEN <<FloatToInt(FloatMulInt(th, r)), th>>
             ELSE <<tw, FloatToInt(FloatDivIntFloat(tw, r))>>

\* image_to_pdf_advanced, the contain branch (pdf_routes.py:178-188)
contain_size(iw, ih, draw_w, draw_h) ==
    LET img_ratio == FloatDivInts(iw, ih)
        page_ratio == FloatDivInts(draw_w, draw_h)
    IN  IF FloatGt(img_ratio, page_ratio)
        THEN <<draw_w, FloatToInt(FloatDivIntFloat(draw_w, img_ratio))>>
        ELSE <<FloatToInt(FloatMulInt(draw_h, img_ratio)), draw_h>>

\* image_to_pdf_advanced, the cover branch (pdf_routes.py:178-179, 189-195)
cover_size(iw, ih, draw_w, draw_h) ==
    LET img_ratio == FloatDivInts(iw, ih)
        page_ratio == FloatDivInts(draw_w, draw_h)
    IN  IF FloatGt(page_ratio, img_ratio)
        THEN <<draw_w, FloatToInt(FloatDivIntFloat(draw_w, img_ratio))>>
        ELSE <<FloatToInt(FloatMulInt(draw_h, img_ratio)), draw_h>>

\* The sizes the model draws: the small ones, and a few larger ones (49 = 7 * 7
\* has a reciprocal that does not multiply back to 1; 150 exceeds the least
\* max_width the route accepts).
Dims == (1..MaxDim) \cup {49}
SourceDims == Dims \cup {150}
Percents == {10, 50, 100}
MaxSides == {0, 100}
SizeModes == {"fit", "pad", "stretch"}

SizeCalls ==
    [fn : {"compute_size"}, ow : Dims, oh : Dims, tw : Dims, th : Dims, mode : SizeModes]
    \cup [fn : {"contain", "cover"}, iw : Dims, ih : Dims, draw_w : Dims, draw_h : Dims]
    \cup [fn : {"calculate_new_size"}, w : SourceDims, h : SourceDims,
          resize_percent : Percents, max_width : MaxSides, max_height : MaxSides]

InitSize ==
    /\ sizeCall \in SizeCalls
    /\ sizeRes = <<>>
    /\ SplitIdle /\ BatchIdle /\ CompressPdfIdle /\ CompressImageIdle /\ ImageToPdfIdle /\ EncodeIdle

ApplyComputeSize ==
    /\ sizeRes = <<>> /\ sizeCall.fn = "compute_size"
    /\ sizeRes' = compute_size(sizeCall.ow, sizeCall.oh, sizeCall.tw, sizeCall.th, sizeCall.mode)
    /\ UNCHANGED sizeCall
    /\ UNCHANGED nonSizeVars

ApplyContain ==
    /\ sizeRes = <<>> /\ sizeCall.fn = "contain"
    /\ sizeRes' = contain_size(sizeCall.iw, sizeCall.ih, sizeCall.draw_w, sizeCall.draw_h)
    /\ UNCHANGED sizeCall
    /\ UNCHANGED nonSizeVars

ApplyCover ==
    /\ sizeRes = <<>> /\ sizeCall.fn = "cover"
    /\ sizeRes' = cover_size(sizeCall.iw, sizeCall.ih, sizeCall.draw_w, sizeCall.draw_h)
    /\ UNCHANGED sizeCall
    /\ UNCHANGED nonSizeVars

ApplyCalculateNewSize ==
    /\ sizeRes = <<>> /\ sizeCall.fn = "calculate_new_size"
    /\ sizeRes' = calculate_new_size(sizeCall.w, sizeCall.h, sizeCall.resize_percent,
                                     sizeCall.max_width, sizeCall.max_height)
    /\ UNCHANGED sizeCall
    /\ UNCHANGED nonSizeVars

NextSize == ApplyComputeSize \/ ApplyContain \/ ApplyCover \/ ApplyCalculateNewSize

SpecSize == InitSize /\ [][NextSize]_vars

Applied(fn) == sizeCall.fn = fn /\ sizeRes # <<>>

\* C8: fit and pad sizing, and the contain branch of image-to-pdf-advanced,
\* never return a dimension larger than the requested box.
C8_FitWithinBox ==
    /\ (Applied("compute_size") /\ sizeCall.mode \in {"fit", "pad"})
        => sizeRes[1] <= sizeCall.tw /\ sizeRes[2] <= sizeCall.th
    /\ Applied("contain") => sizeRes[1] <= sizeCall.draw_w /\ sizeRes[2] <= sizeCall.draw_h

\* a 3 x 2 image fitted into a 2 x 3 box came out 2 x 1
C8_Witness ==
    /\ Applied("compute_size") /\ sizeCall.mode = "fit"
    /\ sizeCall.ow = 3 /\ sizeCall.oh = 2 /\ sizeCall.tw = 2 /\ sizeCall.th = 3
    /\ sizeRes = <<2, 1>>

\* C9: the cover branch of image-to-pdf-advanced never returns a dimension
\* smaller than the drawable area.
C9_CoverFillsBox ==
    Applied("cover") => sizeRes[1] >= sizeCall.draw_w /\ sizeRes[2] >= sizeCall.draw_h

\* C10: calculate_new_size and compute_size return a width and a height of at
\* least 1 pixel.
C10_AtLeastOnePixel ==
    (Applied("calculate_new_size") \/ Applied("compute_size"))
        => sizeRes[1] >= 1 /\ sizeRes[2] >= 1

(***************************************************************************)
(* compress-pdf-advanced (pdf_routes.py:229-306): the two document         *)
(* handles.  Whether a library call succeeds is the environment's choice.  *)
(***************************************************************************)
\* lines 253-256: how many pages are processed; None is 0
SelectedPages ==
    IF cpMaxPages # 0 /\ cpMaxPages < cpPageCount THEN cpMaxPages ELSE cpPageCount

InitCompressPdf ==
    /\ cpPageCount \in 0..MaxPdfPages
    /\ cpMaxPages \in 0..(MaxPdfPages + 1)
    /\ cpRemoveMetadata \in BOOLEAN
    /\ cpPc = "open"
    /\ srcDoc = "none" /\ newDoc = "none"
    /\ cpInserted = 0
    /\ cpRaised = FALSE
    /\ cpResp = NoResp
    /\ SplitIdle /\ BatchIdle /\ SizeIdle /\ CompressImageIdle /\ ImageToPdfIdle /\ EncodeIdle

CpFixed == <<cpPageCount, cpMaxPages, cpRemoveMetadata>>

\* lines 244-248: fitz.open(stream=content, filetype="pdf")
CpOpenSource ==
    /\ cpPc = "open"
    /\ \E ok \in BOOLEAN :
        IF ok
        THEN srcDoc' = "open" /\ cpPc' = "create" /\ UNCHANGED cpResp
        ELSE /\ cpPc' = "done"
             /\ cpResp' = [kind |-> "error", msg |-> "Invalid PDF file"]
             /\ UNCHANGED srcDoc
    /\ UNCHANGED <<CpFixed, newDoc, cpInserted, cpRaised>>
    /\ UNCHANGED nonCompressPdfVars

\* lines 250-262: the page selection, the matrix and new_doc = fitz.open(),
\* all before the try block: an exception here leaves the handler at once
CpCreateDest ==
    /\ cpPc = "create"
    /\ \E ok \in BOOLEAN :
        IF ok
        THEN newDoc' = "open" /\ cpPc' = "loop" /\ UNCHANGED cpResp
        ELSE /\ cpPc' = "done"
             /\ cpResp' = [kind |-> "exception"]
             /\ UNCHANGED newDoc
    /\ UNCHANGED <<CpFixed, srcDoc, cpInserted, cpRaised>>
    /\ UNCHANGED nonCompressPdfVars

\* lines 265-286: one page is rendered, encoded and inserted
CpPage ==
    /\ cpPc = "loop" /\ cpInserted < SelectedPages
    /\ \E ok \in BOOLEAN :
        IF ok
        THEN cpInserted' = cpInserted + 1 /\ UNCHANGED <<cpPc, cpRaised>>
        ELSE cpRaised' = TRUE /\ cpPc' = "finally" /\ UNCHANGED cpInserted
    /\ UNCHANGED <<CpFixed, srcDoc, newDoc, cpResp>>
    /\ UNCHANGED nonCompressPdfVars

\* lines 288-294: set_metadata when asked, then new_doc.save
CpSave ==
    /\ cpPc = "loop" /\ cpInserted = SelectedPages
    /\ \E ok \in BOOLEAN :
        /\ cpRaised' = ~ok
        /\ cpPc' = "finally"
    /\ UNCHANGED <<CpFixed, srcDoc, newDoc, cpInserted, cpResp>>
    /\ UNCHANGED nonCompressPdfVars

\* lines 296-298: the finally block; a pending exception then leaves the handler
CpFinally ==
    /\ cpPc = "finally"
    /\ newDoc' = "closed"
    /\ srcDoc' = "closed"
    /\ IF cpRaised
       THEN cpPc' = "done" /\ cpResp' = [kind |-> "exception"]
       ELSE cpPc' = "return" /\ UNCHANGED cpResp
    /\ UNCHANGED <<CpFixed, cpInserted, cpRaised>>
    /\ UNCHANGED nonCompressPdfVars

\* lines 300-306
CpReturn ==
    /\ cpPc = "return"
    /\ cpPc' = "done"
    /\ cpResp' = [kind |-> "document", pages |-> cpInserted,
                  metadata |-> ~cpRemoveMetadata]
    /\ UNCHANGED <<CpFixed, srcDoc, newDoc, cpInserted, cpRaised>>
    /\ UNCHANGED nonCompressPdfVars

NextCompressPdf ==
    CpOpenSource \/ CpCreateDest \/ CpPage \/ CpSave \/ CpFinally \/ CpReturn

SpecCompressPdf == InitCompressPdf /\ [][NextCompressPdf]_vars

\* C6: once the source document has been opened, every document handle that
\* was opened has been closed by the time the request ends.
C6_HandlesClosed ==
    (cpPc = "done" /\ srcDoc # "none") => srcDoc = "closed" /\ newDoc \in {"none", "closed"}

(***************************************************************************)
(* compress-image-advanced (image_routes.py:52-140).                       *)
(***************************************************************************)
SUPPORTED_FORMATS == {"jpeg", "jpg", "png", "webp"}

\* the order of the handler's steps, with the metadata strip moved first
CiFlowStripFirst(pc, keep) ==
    CASE pc = "validate" -> IF keep THEN "orient" ELSE "strip"
      [] pc = "strip" -> "orient"
      [] pc = "orient" -> "transform"
      [] pc = "transform" -> "encode"
      [] pc = "encode" -> "done"

\* the order of the handler's steps (lines 90-123): the step after pc
CiFlow(pc, keep) ==
    CASE pc = "validate" -> "orient"
      [] pc = "orient" -> "transform"
      [] pc = "transform" -> IF keep THEN "encode" ELSE "strip"
      [] pc = "strip" -> "encode"
      [] pc = "encode" -> "done"

ImageModes == {"RGB", "RGBA", "P"}
\* EXIF orientation: 1 upright, 6 rotated by a quarter turn
OrientationTags == {1, 6}
ImageSizes == {<<1, 1>>, <<150, 120>>}
ResizeParams ==
    {[percent |-> 100, max_width |-> 0, max_height |-> 0],
     [percent |-> 10, max_width |-> 0, max_height |-> 0],
     [percent |-> 100, max_width |-> 100, max_height |-> 100],
     [percent |-> 50, max_width |-> 100, max_height |-> 0]}

Uploads ==
    {[kind |-> "empty"], [kind |-> "oversize"], [kind |-> "garbage"]}
    \cup [kind : {"image"}, mode : ImageModes, tag : OrientationTags, size : ImageSizes]

InitCompressImage ==
    /\ ciFormat \in {"jpeg", "png", "webp", "gif"}
    /\ ciUpload \in Uploads
    /\ ciKeepMetadata \in BOOLEAN
    /\ ciResize \in ResizeParams
    /\ ciImage = [mode |-> "", size |-> <<0, 0>>, tag |-> 1, upright |-> TRUE, info |-> FALSE]
    /\ ciSteps = <<>>
    /\ ciPc = "validate"
    /\ ciResp = NoResp
    /\ SplitIdle /\ BatchIdle /\ SizeIdle /\ CompressPdfIdle /\ ImageToPdfIdle /\ EncodeIdle

CiFixed == <<ciFormat, ciUpload, ciKeepMetadata, ciResize>>

\* lines 72-88: the format, the size of the upload, Image.open
CiValidate ==
    /\ ciPc = "validate"
    /\ IF ciFormat \notin SUPPORTED_FORMATS \/ ciUpload.kind # "image"
       THEN /\ ciPc' = "done"
            /\ ciResp' = [kind |-> "error",
                          status |-> IF ciFormat \in SUPPORTED_FORMATS /\ ciUpload.kind = "oversize"
                                     THEN 413 ELSE 400]
            /\ UNCHANGED ciImage
       ELSE /\ ciPc' = CiFlow("validate", ciKeepMetadata)
            /\ ciImage' = [mode |-> ciUpload.mode, size |-> ciUpload.size, tag |-> ciUpload.tag,
                           upright |-> ciUpload.tag = 1, info |-> TRUE]
            /\ UNCHANGED ciResp
    /\ UNCHANGED <<CiFixed, ciSteps>>
    /\ UNCHANGED nonCompressImageVars

\* line 91: ImageOps.exif_transpose applies the orientation tag it finds and
\* drops it; a quarter turn swaps width and height
CiOrient ==
    /\ ciPc = "orient"
    /\ ciImage' = [ciImage EXCEPT
                    !.upright = IF ciImage.tag # 1 THEN TRUE ELSE @,
                    !.size = IF ciImage.tag = 6 THEN <<@[2], @[1]>> ELSE @,
                    !.tag = 1]
    /\ ciSteps' = Append(ciSteps, "orient")
    /\ ciPc' = CiFlow("orient", ciKeepMetadata)
    /\ UNCHANGED <<CiFixed, ciResp>>
    /\ UNCHANGED nonCompressImageVars

\* lines 94-95: image.convert("RGB") for the modes named
ConvertMode(mode) == IF mode \in {"RGBA", "P"} THEN "RGB" ELSE mode

\* lines 93-103: the mode conversion and the single resize; Pillow refuses a
\* size with a zero side
CiTransform ==
    /\ ciPc = "transform"
    /\ \E new_size \in {calculate_new_size(ciImage.size[1], ciImage.size[2], ciResize.percent,
                                            ciResize.max_width, ciResize.max_height)} :
           IF new_size # ciImage.size /\ (new_size[1] < 1 \/ new_size[2] < 1)
           THEN /\ ciPc' = "done"
                /\ ciResp' = [kind |-> "exception"]
                /\ UNCHANGED <<ciImage, ciSteps>>
           ELSE /\ ciImage' = [ciImage EXCEPT
                                !.mode = ConvertMode(@),
                                !.size = new_size]
                /\ ciSteps' = Append(ciSteps, "transform")
                /\ ciPc' = CiFlow("transform", ciKeepMetadata)
                /\ UNCHANGED ciResp
    /\ UNCHANGED CiFixed
    /\ UNCHANGED nonCompressImageVars

\* lines 105-107: image.info.clear(), taken only when keep_metadata is false;
\* an orientation tag not yet applied is lost with the rest
CiStrip ==
    /\ ciPc = "strip"
    /\ ciImage' = [ciImage EXCEPT !.info = FALSE, !.tag = 1]
    /\ ciSteps' = Append(ciSteps, "strip")
    /\ ciPc' = CiFlow("strip", ciKeepMetadata)
    /\ UNCHANGED <<CiFixed, ciResp>>
    /\ UNCHANGED nonCompressImageVars

\* lines 109-140: image.save and the response
CiEncode ==
    /\ ciPc = "encode"
    /\ ciSteps' = Append(ciSteps, "encode")
    /\ ciPc' = CiFlow("encode", ciKeepMetadata)
    /\ ciResp' = [kind |-> "image", format |-> ciFormat, mode |-> ciImage.mode,
                  size |-> ciImage.size, upright |-> ciImage.upright,
                  metadata |-> ciImage.info]
    /\ UNCHANGED <<CiFixed, ciImage>>
    /\ UNCHANGED nonCompressImageVars

NextCompressImage == CiValidate \/ CiOrient \/ CiTransform \/ CiStrip \/ CiEncode

SpecCompressImage == InitCompressImage /\ [][NextCompressImage]_vars

IsPrefix(s, t) == Len(s) <= Len(t) /\ \A i \in DOMAIN s : s[i] = t[i]

StepOrder ==
    IF ciKeepMetadata THEN <<"orient", "transform", "encode">>
    ELSE <<"orient", "transform", "strip", "encode">>

\* C7: the steps of compress-image-advanced occur in the order orientation,
\* transform, metadata strip (only when keep_metadata is false), encode: the
\* steps taken so far are always a prefix of that order, and an encoded image
\* has been through all of them.
C7_StepOrder ==
    /\ IsPrefix(ciSteps, StepOrder)
    /\ ciResp.kind = "image" => ciSteps = StepOrder

\* an image with a quarter-turn orientation tag has been oriented, transformed,
\* stripped and encoded
C7_Witness ==
    /\ ciPc = "done" /\ ~ciKeepMetadata
    /\ ciUpload.kind = "image" /\ ciUpload.tag = 6 /\ ciUpload.mode = "RGBA"
    /\ ciSteps = <<"orient", "transform", "strip", "encode">>
    /\ ciResp.kind = "image" /\ ciResp.upright /\ ~ciResp.metadata

(***************************************************************************)
(* image-to-pdf-advanced (pdf_routes.py:142-226).                          *)
(***************************************************************************)
PAGE_SIZES == [A4 |-> <<595, 842>>, LETTER |-> <<612, 792>>]

Abs(n) == IF n < 0 THEN 0 - n ELSE n

\* lines 165-172: the page of an image, after the orientation swap
PageOf(img, page_size, orientation) ==
    LET page == IF page_size = "FIT" THEN img ELSE PAGE_SIZES[page_size]
    IN  IF orientation = "landscape" THEN <<page[2], page[1]>> ELSE page

\* lines 175-176: the drawable area
DrawArea(page, margin) == <<page[1] - margin * 2, page[2] - margin * 2>>

\* int(n / x) and int(n * x) for an int n of either sign and a float x > 0:
\* binary64 rounds symmetrically and int() truncates toward zero
IntDivFloat(n, x) ==
    IF n = 0 THEN 0
    ELSE IF n < 0 THEN 0 - FloatToInt(FloatDivIntFloat(0 - n, x))
    ELSE FloatToInt(FloatDivIntFloat(n, x))

SignedIntTimesFloat(n, x) == IF n < 0 THEN 0 - IntTimesFloat(0 - n, x) ELSE IntTimesFloat(n, x)

\* lines 183 and 190: img_ratio > page_ratio and img_ratio < page_ratio, for
\* img_ratio > 0 and page_ratio = draw_w / draw_h with draw_h # 0
RatioAbovePage(img_ratio, draw_w, draw_h) ==
    IF draw_w = 0 \/ (draw_w < 0) # (draw_h < 0) THEN TRUE
    ELSE FloatGt(img_ratio, FloatDivInts(Abs(draw_w), Abs(draw_h)))

RatioBelowPage(img_ratio, draw_w, draw_h) ==
    IF draw_w = 0 \/ (draw_w < 0) # (draw_h < 0) THEN FALSE
    ELSE FloatGt(FloatDivInts(Abs(draw_w), Abs(draw_h)), img_ratio)

\* lines 178-195: the scaled size of the image, or the ZeroDivisionError of
\* page_ratio = draw_w / draw_h; a positive area takes contain_size or
\* cover_size
layout_size(iw, ih, draw_w, draw_h, fit_mode) ==
    IF draw_h = 0 THEN "ZeroDivisionError"
    ELSE IF draw_w > 0 /\ draw_h > 0
    THEN IF fit_mode = "contain" THEN contain_size(iw, ih, draw_w, draw_h)
         ELSE cover_size(iw, ih, draw_w, draw_h)
    ELSE IF (fit_mode = "contain" /\ RatioAbovePage(FloatDivInts(iw, ih), draw_w, draw_h))
            \/ (fit_mode = "cover" /\ RatioBelowPage(FloatDivInts(iw, ih), draw_w, draw_h))
    THEN <<draw_w, IntDivFloat(draw_w, FloatDivInts(iw, ih))>>
    ELSE <<SignedIntTimesFloat(draw_h, FloatDivInts(iw, ih)), draw_h>>

\* the uploaded images, by size: each makes some margin too large for a FIT
\* page in one direction or both
PdfImages == {<<300, 150>>, <<200, 400>>, <<40, 60>>}
Margins == {0, 10, 100}

InitImageToPdf ==
    /\ itpFiles \in SeqsUpTo(PdfImages, MaxImages)
    /\ itpPageSize \in {"A4", "LETTER", "FIT"}
    /\ itpOrientation \in {"portrait", "landscape"}
    /\ itpMargin \in Margins
    /\ itpFitMode \in {"contain", "cover"}
    /\ itpPc = "check"
    /\ itpSize = <<>>
    /\ itpCanvases = <<>>
    /\ itpResp = NoResp
    /\ SplitIdle /\ BatchIdle /\ SizeIdle /\ CompressPdfIdle /\ CompressImageIdle
    /\ EncodeIdle

ItpFixed == <<itpFiles, itpPageSize, itpOrientation, itpMargin, itpFitMode>>

\* the image the loop is at, its page and its drawable area
ItpImage == itpFiles[Len(itpCanvases) + 1]
ItpPage == PageOf(ItpImage, itpPageSize, itpOrientation)
ItpDraw == DrawArea(ItpPage, itpMargin)

\* lines 152-153
ItpCheck ==
    /\ itpPc = "check"
    /\ IF itpFiles = <<>>
       THEN /\ itpPc' = "done"
            /\ itpResp' = [kind |-> "error", msg |-> "Please upload at least one image."]
       ELSE itpPc' = "layout" /\ UNCHANGED itpResp
    /\ UNCHANGED <<ItpFixed, itpSize, itpCanvases>>
    /\ UNCHANGED nonImageToPdfVars

\* lines 158-195: the page, the drawable area and the scaled size of one image
ItpLayout ==
    /\ itpPc = "layout"
    /\ \E size \in {layout_size(ItpImage[1], ItpImage[2], ItpDraw[1], ItpDraw[2], itpFitMode)} :
        IF size = "ZeroDivisionError"
        THEN /\ itpPc' = "done"
             /\ itpResp' = [kind |-> "exception", type |-> "ZeroDivisionError"]
             /\ UNCHANGED itpSize
        ELSE itpSize' = size /\ itpPc' = "compose" /\ UNCHANGED itpResp
    /\ UNCHANGED <<ItpFixed, itpCanvases>>
    /\ UNCHANGED nonImageToPdfVars

\* lines 197-206: the resize (Pillow refuses a side below 1), the canvas of
\* page size and the paste at the centring offset
ItpCompose ==
    /\ itpPc = "compose"
    /\ IF itpSize[1] < 1 \/ itpSize[2] < 1
       THEN /\ itpPc' = "done"
            /\ itpResp' = [kind |-> "exception", type |-> "ValueError"]
            /\ UNCHANGED itpCanvases
       ELSE /\ itpCanvases' = Append(itpCanvases,
                                [page |-> ItpPage, image |-> itpSize,
                                 offset |-> <<(ItpPage[1] - itpSize[1]) \div 2,
                                              (ItpPage[2] - itpSize[2]) \div 2>>])
            /\ itpPc' = IF Len(itpCanvases) + 1 = Len(itpFiles) THEN "export" ELSE "layout"
            /\ UNCHANGED itpResp
    /\ itpSize' = <<>>
    /\ UNCHANGED ItpFixed
    /\ UNCHANGED nonImageToPdfVars

\* lines 208-226
ItpExport ==
    /\ itpPc = "export"
    /\ itpPc' = "done"
    /\ itpResp' = [kind |-> "document", pages |-> itpCanvases]
    /\ UNCHANGED <<ItpFixed, itpSize, itpCanvases>>
    /\ UNCHANGED nonImageToPdfVars

NextImageToPdf == ItpCheck \/ ItpLayout \/ ItpCompose \/ ItpExport

SpecImageToPdf == InitImageToPdf /\ [][NextImageToPdf]_vars

\* the margin leaves no drawable area on the page of the i-th image
MarginTooLarge(i) ==
    LET draw == DrawArea(PageOf(itpFiles[i], itpPageSize, itpOrientation), itpMargin)
    IN  draw[1] <= 0 \/ draw[2] <= 0

\* C11: when the margin leaves a drawable width or height of 0 or less on the
\* page of some image, no canvas is produced for that image, no document is
\* returned, and the request ends with a validation error.
C11_MarginValidated ==
    \A i \in 1..Len(itpFiles) :
        MarginTooLarge(i) =>
            /\ Len(itpCanvases) < i
            /\ itpResp.kind # "document"
            /\ itpPc = "done" => itpResp.kind = "error"

(***************************************************************************)
(* The colour mode an image has when the encoder is called, on the three   *)
(* image routes (image_routes.py:93-123, 163-179, 222-227, 332-366).       *)
(***************************************************************************)
\* line 121, SUPPORTED_OUTPUTS (lines 148-155), FORMAT_MAP (lines 259-263)
PilFormat(fmt) == IF fmt \in {"jpeg", "jpg"} THEN "JPEG"
                  ELSE IF fmt = "png" THEN "PNG"
                  ELSE IF fmt = "webp" THEN "WEBP"
                  ELSE IF fmt = "bmp" THEN "BMP"
                  ELSE "TIFF"

\* prepare_image (lines 176-179)
prepare_image(mode, fmt) ==
    IF mode \in {"RGBA", "P"} /\ fmt \in {"jpeg", "jpg", "bmp"} THEN "RGB" ELSE mode

\* resize_image, the JPEG safety step (lines 357-358)
JpegSafety(pillow_fmt, mode) ==
    IF pillow_fmt = "JPEG" /\ mode \in {"RGBA", "LA"} THEN "RGB" ELSE mode

\* resize_image, one upload from the resize to the encoder call (lines
\* 338-366): the set of outcomes.  Image.resize keeps the mode; Sharpness
\* filters the image, which Pillow refuses for a palette image; pasting onto
\* the pad canvas leaves the canvas's mode; an RGB canvas with the colour name
\* "transparent" is created or refused, as the library's colour table decides.
resize_item(mode, pillow_fmt, rmode, transparent, sharpen) ==
    IF sharpen /\ mode = "P" THEN {[kind |-> "raised", at |-> "sharpen"]}
    ELSE IF rmode # "pad"
    THEN {[kind |-> "encode", format |-> pillow_fmt, mode |-> JpegSafety(pillow_fmt, mode)]}
    ELSE IF transparent /\ pillow_fmt # "JPEG"
    THEN {[kind |-> "encode", format |-> pillow_fmt, mode |-> JpegSafety(pillow_fmt, "RGBA")]}
    ELSE {[kind |-> "encode", format |-> pillow_fmt, mode |-> JpegSafety(pillow_fmt, "RGB")]}
         \cup (IF transparent THEN {[kind |-> "raised", at |-> "canvas"]} ELSE {})

SourceModes == {"RGB", "RGBA", "P", "LA", "L"}

EncodeCalls ==
    [route : {"compress"}, mode : SourceModes, format : SUPPORTED_FORMATS]
    \cup [route : {"convert"}, mode : SourceModes,
          format : {"jpeg", "jpg", "png", "webp", "bmp", "tiff"}]
    \cup [route : {"resize"}, mode : SourceModes, format : {"jpeg", "png", "webp"},
          resize_mode : {"fit", "stretch", "pad"}, transparent : BOOLEAN, sharpen : BOOLEAN]

InitEncode ==
    /\ encCall \in EncodeCalls
    /\ encRes = <<>>
    /\ SplitIdle /\ BatchIdle /\ SizeIdle /\ CompressPdfIdle /\ CompressImageIdle
    /\ ImageToPdfIdle

\* compress_image_advanced, lines 91-123
EncodeCompress ==
    /\ encRes = <<>> /\ encCall.route = "compress"
    /\ encRes' = [kind |-> "encode", format |-> PilFormat(encCall.format),
                  mode |-> ConvertMode(encCall.mode)]
    /\ UNCHANGED encCall
    /\ UNCHANGED nonEncodeVars

\* convert_image, lines 200-203 and 224-227
EncodeConvert ==
    /\ encRes = <<>> /\ encCall.route = "convert"
    /\ encRes' = [kind |-> "encode", format |-> PilFormat(encCall.format),
                  mode |-> prepare_image(encCall.mode, encCall.format)]
    /\ UNCHANGED encCall
    /\ UNCHANGED nonEncodeVars

\* resize_image, lines 332-366
EncodeResize ==
    /\ encRes = <<>> /\ encCall.route = "resize"
    /\ encRes' \in resize_item(encCall.mode, PilFormat(encCall.format), encCall.resize_mode,
                               encCall.transparent, encCall.sharpen)
    /\ UNCHANGED encCall
    /\ UNCHANGED nonEncodeVars

NextEncode == EncodeCompress \/ EncodeConvert \/ EncodeResize

SpecEncode == InitEncode /\ [][NextEncode]_vars

\* C12: on every image route, an image handed to the JPEG encoder (or to the
\* BMP encoder in convert-image) has a colour mode that is neither RGBA nor P.
C12_NoAlphaModeEncoded ==
    (encRes # <<>> /\ encRes.kind = "encode" /\ encRes.format \in {"JPEG", "BMP"})
        => encRes.mode \notin {"RGBA", "P"}

Init ==
    InitSplit \/ InitBatch \/ InitSize \/ InitCompressPdf \/ InitCompressImage \/ InitImageToPdf
    \/ InitEncode
Next ==
    NextSplit \/ NextBatch \/ NextSize \/ NextCompressPdf \/ NextCompressImage \/ NextImageToPdf
    \/ NextEncode
Spec == Init /\ [][Next]_vars

=============================================================================
